---- MODULE Spec2Model ----
(***************************************************************************)
(* Model of backend/app/core/rate_limiter.py: the RateLimiter with its     *)
(* four strategies (fixed window, sliding window, token bucket, leaky      *)
(* bucket), its networked backend (redis_client) and its in-process        *)
(* fallback (memory_store).                                                *)
(*                                                                         *)
(* Time.  time.time() is a real number of seconds.  The model's clock      *)
(* counts ticks of 1/Res second, so a float timestamp is a tick count and  *)
(* int(time.time()) is (tick \div Res).  Token and volume amounts are      *)
(* rationals whose denominator divides window * Res; they are stored       *)
(* multiplied by Scale(rate_limit) = window * Res, which makes             *)
(* "elapsed seconds * requests / window" the integer "elapsed ticks *      *)
(* requests".  Binary floating-point rounding is not modelled.  The clock  *)
(* never runs backwards; two reads of it may return the same value.        *)
(*                                                                         *)
(* Keys.  The code builds a store key by joining a prefix, the identifier  *)
(* and (fixed window) the window start with ":"; the model keeps the parts *)
(* as a tuple, which is what the string determines (the prefixes differ    *)
(* and the window start is a run of digits).                               *)
(*                                                                         *)
(* Specifications.  Spec: one client, sequential checks, either backend,   *)
(* store faults.  SpecKeys: the same with two clients.  SpecConc: checks   *)
(* of one client that run concurrently on the networked backend (token and *)
(* leaky bucket); SpecFixedConc: the same for the fixed window.            *)
(* SpecMiddleware: requests through RateLimitMiddleware.dispatch;          *)
(* SpecConfig: the same with a policy whose requests or window is 0.       *)
(* SpecSelect, SpecIdentify: get_rate_limit_for_endpoint and               *)
(* get_client_identifier on their inputs.  SpecExpiry: checks on the       *)
(* networked backend under bucket policies with burst > 2 * requests.      *)
(* SpecDual: the token bucket and the leaky bucket checked at the same     *)
(* instants.  SpecMemoryConc: concurrent fixed-window checks on the memory *)
(* store.                                                                  *)
(*                                                                         *)
(* Strings.  A path, a header value or an identifier is the sequence of    *)
(* the pieces it is written with ("/", "auth", ",", " ", ...); "in" is     *)
(* the contiguous-subsequence test and an f-string is a concatenation.     *)
(***************************************************************************)
EXTENDS Integers, Naturals, Sequences, FiniteSets, TLC

VARIABLES
    started,       \* has the application's startup (connect()) run
    redis_client,  \* RateLimiter.redis_client: FALSE is None
    rate_limit,    \* the RateLimit policy the caller passes to every check
    clock,         \* wall clock, in ticks
    redis,         \* the networked store: key -> [val, exp]
    memory_store,  \* RateLimiter.memory_store: key -> value
    last,          \* what Subject's latest check_rate_limit call gave its caller
    clients,       \* the identifiers that make checks
    limits,        \* the horizon of the run: [time, checks]
    hist,          \* bookkeeping about the checks Subject has made so far
    solo,          \* the stores and the decision as Subject's checks alone give them
    nChecks,       \* number of checks made so far
    procs,         \* concurrent checks in flight: request -> [pc, read, allowed]
    rate_limits,   \* RateLimitMiddleware.rate_limits: the overrides, in dict order
    request,       \* the request the middleware received last
    response       \* what the middleware did with it

vars == <<started, redis_client, rate_limit, clock, redis, memory_store, last,
          clients, limits, hist, solo, nChecks, procs, rate_limits, request, response>>

----
(* Bounds of the model *)

\* ticks per second
Res == 2
\* the clock stops at MaxTime ticks
MaxTime == 6
\* at most MaxChecks checks are made
MaxChecks == 4
\* the same two, for the runs with two clients
KeysMaxTime == 3
KeysMaxChecks == 3
\* number of checks that run concurrently
ConcProcs == 3
\* ticks the clock may advance between two clock reads of one check
MaxSkew == 2
\* policies: requests in 1..MaxRequests, window in 1..MaxWindow seconds,
\* burst None (0) or in 1..MaxBurst
MaxRequests == 2
MaxWindow == 2
MaxBurst == 2
\* requests through the middleware: the clock stops at MwMaxTime ticks and
\* at most MwMaxChecks requests are checked
MwMaxTime == 1
MwMaxChecks == 3
\* a path has at most MaxPathLen pieces, an X-Forwarded-For value at most
\* MaxHeaderLen; the middleware has at most MaxOverrides overrides
MaxPathLen == 3
MaxHeaderLen == 3
MaxOverrides == 2

----
(* Constants of the source *)

\* RateLimitMiddleware.default_limits: 100, 5 and 10 requests per 60 seconds
DefaultRequests == 100
AuthRequests == 5
UploadRequests == 10
DefaultWindow == 60
\* status.HTTP_429_TOO_MANY_REQUESTS
HTTP_429_TOO_MANY_REQUESTS == 429

----
(* Values *)

\* RateLimitStrategy
Strategies == {"fixed_window", "sliding_window", "token_bucket", "leaky_bucket"}

\* RateLimit; burst = 0 stands for burst = None ("burst or requests" treats
\* them alike).  The two window strategies never read burst.
RateLimit ==
    { rl \in [requests : 1..MaxRequests, window : 1..MaxWindow,
              strategy : Strategies, burst : 0..MaxBurst] :
        rl.strategy \in {"fixed_window", "sliding_window"} => rl.burst = 0 }

\* client identifiers, as get_client_identifier builds them; the properties
\* follow the checks of Subject
Subject == "user:1"
Identifiers == {Subject, "ip:10.0.0.1"}

\* a redis key without a time to live
NoTTL == -1

Min(a, b) == IF a <= b THEN a ELSE b
Max(a, b) == IF a >= b THEN a ELSE b

\* dict assignment d[k] = v and del d[k]
Put(d, k, v) == [x \in (DOMAIN d) \cup {k} |-> IF x = k THEN v ELSE d[x]]
Del(d, k) == [x \in (DOMAIN d) \ {k} |-> d[x]]
EmptyDict == [x \in {} |-> 0]

\* int(time.time()): whole seconds of a tick count
IntSeconds(t) == t \div Res
\* a duration of s seconds, in ticks
Ticks(s) == s * Res
\* token and volume amounts are stored multiplied by Scale
Scale(rl) == rl.window * Res
\* burst = rate_limit.burst or rate_limit.requests
BurstOf(rl) == IF rl.burst # 0 THEN rl.burst ELSE rl.requests

----
(* The networked store.  A key whose time to live has run out is gone.     *)

Purge(r, t) ==
    [k \in {x \in DOMAIN r : ~(r[x].exp # NoTTL /\ r[x].exp <= t)} |-> r[k]]

\* a write to a key keeps the key's time to live
SetVal(r, key, v) ==
    Put(r, key, [val |-> v, exp |-> IF key \in DOMAIN r THEN r[key].exp ELSE NoTTL])

\* INCR key
Incr(r, key) ==
    SetVal(r, key, (IF key \in DOMAIN r THEN r[key].val ELSE 0) + 1)

\* EXPIRE key seconds, run at tick t
Expire(r, key, seconds, t) ==
    IF key \in DOMAIN r THEN Put(r, key, [r[key] EXCEPT !.exp = t + Ticks(seconds)])
    ELSE r

\* the faults a store call can meet: none, or a communication error in the
\* named call, which the server had applied or not when the error was raised
NoFault == [call |-> "none", applied |-> FALSE]
PipelineFaults == {NoFault} \cup [call : {"execute"}, applied : BOOLEAN]
HashFaults ==
    {NoFault, [call |-> "hmget", applied |-> FALSE]}
        \cup [call : {"hmset", "expire"}, applied : BOOLEAN]

\* mutant of FailOpen: the except branch denies
FailClosed(r, m) ==
    [redis |-> r, memory |-> m, out |-> "failopen", allowed |-> FALSE,
     md |-> EmptyDict, aux |-> EmptyDict]

\* the except branches: "return True, {}"
FailOpen(r, m) ==
    [redis |-> r, memory |-> m, out |-> "failopen", allowed |-> TRUE,
     md |-> EmptyDict, aux |-> EmptyDict]

Returned(r, m, allowed, md, aux) ==
    [redis |-> r, memory |-> m, out |-> "ok", allowed |-> allowed, md |-> md,
     aux |-> aux]

\* an exception that leaves check_rate_limit
Raised(r, m, aux) ==
    [redis |-> r, memory |-> m, out |-> "raised", allowed |-> FALSE,
     md |-> EmptyDict, aux |-> aux]

----
(* _fixed_window *)

\* mutants of FixedKey: a key that leaves out the window, or the identifier
FixedKeyNoWindow(identifier, window_start) == <<"rate_limit:fixed", identifier, 0>>
FixedKeyNoIdentifier(identifier, window_start) == <<"rate_limit:fixed", "", window_start>>

FixedKey(identifier, window_start) == <<"rate_limit:fixed", identifier, window_start>>

WindowStart(now, rl) == now - (now % rl.window)

FixedMetadata(rl, current_count, window_start) ==
    [limit |-> rl.requests,
     remaining |-> Max(0, rl.requests - current_count),
     reset |-> window_start + rl.window,
     strategy |-> "fixed_window"]

\* t: the tick at which time.time() is read on entry
FixedWindowRedis(r, m, identifier, rl, t, fault) ==
    LET now == IntSeconds(t)
        window_start == WindowStart(now, rl)
        key == FixedKey(identifier, window_start)
        live == Purge(r, t)
        done == Expire(Incr(live, key), key, rl.window, t)
        current_count == done[key].val
    IN  IF fault.call = "none"
        THEN Returned(done, m, current_count <= rl.requests,
                      FixedMetadata(rl, current_count, window_start),
                      [count |-> current_count])
        ELSE FailOpen(IF fault.applied THEN done ELSE live, m)

\* t2: the tick at which time.time() is read again for the expiry test
\* ("if time.time() > ...expires"); t2 >= t
FixedWindowMemory(r, m, identifier, rl, t, t2) ==
    LET now == IntSeconds(t)
        window_start == WindowStart(now, rl)
        key == FixedKey(identifier, window_start)
        fresh == [count |-> 0, expires |-> window_start + rl.window]
        m1 == IF key \notin DOMAIN m THEN Put(m, key, fresh) ELSE m
        m2 == IF t2 > Ticks(m1[key].expires) THEN Put(Del(m1, key), key, fresh) ELSE m1
        current_count == m2[key].count + 1
        m3 == Put(m2, key, [m2[key] EXCEPT !.count = current_count])
    IN  Returned(r, m3, current_count <= rl.requests,
                 FixedMetadata(rl, current_count, window_start),
                 [count |-> current_count])

----
(* _sliding_window *)

SlidingKey(identifier) == <<"rate_limit:sliding", identifier>>

\* str(now), the sorted-set member of a check: one string per timestamp
Str(now) == <<"str", now>>

\* a sorted set is a set of <<member, score>> pairs with one pair per member
\* ZREMRANGEBYSCORE key lo hi
ZRemRangeByScore(z, lo, hi) == {p \in z : ~(lo <= p[2] /\ p[2] <= hi)}
\* ZADD key {member: score}: a member already in the set only changes score
ZAdd(z, member, score) == {p \in z : p[1] # member} \cup {<<member, score>>}
\* ZCARD key
ZCard(z) == Cardinality(z)

SlidingMetadata(rl, current_count, now) ==
    [limit |-> rl.requests,
     remaining |-> Max(0, rl.requests - current_count),
     reset |-> IntSeconds(now + Ticks(rl.window)),
     strategy |-> "sliding_window"]

SlidingWindowRedis(r, m, identifier, rl, now, fault) ==
    LET key == SlidingKey(identifier)
        window_start == now - Ticks(rl.window)
        live == Purge(r, now)
        z0 == IF key \in DOMAIN live THEN live[key].val ELSE {}
        z1 == ZRemRangeByScore(z0, 0, window_start)
        \* a sorted set left empty is deleted, and its time to live with it
        r1 == IF z1 = {} THEN Del(live, key) ELSE SetVal(live, key, z1)
        card == ZCard(z1)
        r2 == SetVal(r1, key, ZAdd(z1, Str(now), now))
        done == Expire(r2, key, rl.window, now)
        current_count == card + 1
    IN  IF fault.call = "none"
        THEN Returned(done, m, current_count <= rl.requests,
                      SlidingMetadata(rl, current_count, now),
                      [count |-> current_count])
        ELSE FailOpen(IF fault.applied THEN done ELSE live, m)

SlidingWindowMemory(r, m, identifier, rl, now) ==
    LET key == SlidingKey(identifier)
        window_start == now - Ticks(rl.window)
        old == IF key \in DOMAIN m THEN m[key] ELSE <<>>
        kept == SelectSeq(old, LAMBDA timestamp : timestamp > window_start)
        new == Append(kept, now)
        current_count == Len(new)
    IN  Returned(r, Put(m, key, new), current_count <= rl.requests,
                 SlidingMetadata(rl, current_count, now),
                 [count |-> current_count])

----
(* _token_bucket *)

TokenKey(identifier) == <<"rate_limit:token", identifier>>

\* tokens is scaled; int(tokens) is its whole part
TokenMetadata(rl, tokens) ==
    [limit |-> rl.requests,
     burst |-> BurstOf(rl),
     tokens |-> tokens \div Scale(rl),
     strategy |-> "token_bucket"]

\* mutant of Refill: the refill is not capped at the capacity
RefillUncapped(rl, tokens, time_passed) == tokens + time_passed * rl.requests

\* the refill: min(burst, tokens + time_passed * refill_rate), scaled
Refill(rl, tokens, time_passed) ==
    Min(BurstOf(rl) * Scale(rl), tokens + time_passed * rl.requests)

\* mutant of TokenAvailable: "if tokens > 1"
TokenAvailableStrict(rl, tokens) == tokens > Scale(rl)

\* "if tokens >= 1"
TokenAvailable(rl, tokens) == tokens >= Scale(rl)

\* mutant of TokensAfter: a denied check forfeits the part of a token it found
TokensAfterForfeit(rl, tokens) ==
    IF TokenAvailable(rl, tokens) THEN tokens - Scale(rl) ELSE 0

\* what a check writes back, given the refilled amount
TokensAfter(rl, tokens) ==
    IF TokenAvailable(rl, tokens) THEN tokens - Scale(rl) ELSE tokens

TokenBucketRedis(r, m, identifier, rl, now, fault) ==
    LET key == TokenKey(identifier)
        live == Purge(r, now)
        absent == key \notin DOMAIN live
        tokens0 == IF absent THEN BurstOf(rl) * Scale(rl) ELSE live[key].val.tokens
        last_refill == IF absent THEN now ELSE live[key].val.last_refill
        tokens1 == Refill(rl, tokens0, now - last_refill)
        allowed == TokenAvailable(rl, tokens1)
        tokens == TokensAfter(rl, tokens1)
        written == SetVal(live, key, [tokens |-> tokens, last_refill |-> now])
        done == Expire(written, key, rl.window * 2, now)
    IN  CASE fault.call = "none" ->
               Returned(done, m, allowed, TokenMetadata(rl, tokens),
                        [absent |-> absent, pre |-> tokens1, post |-> tokens])
          [] fault.call = "hmget" -> FailOpen(live, m)
          [] fault.call = "hmset" -> FailOpen(IF fault.applied THEN written ELSE live, m)
          [] fault.call = "expire" -> FailOpen(IF fault.applied THEN done ELSE written, m)

TokenBucketMemory(r, m, identifier, rl, now) ==
    LET key == TokenKey(identifier)
        absent == key \notin DOMAIN m
        bucket == IF absent THEN [tokens |-> BurstOf(rl) * Scale(rl), last_refill |-> now]
                  ELSE m[key]
        tokens1 == Refill(rl, bucket.tokens, now - bucket.last_refill)
        allowed == TokenAvailable(rl, tokens1)
        tokens == TokensAfter(rl, tokens1)
    IN  Returned(r, Put(m, key, [tokens |-> tokens, last_refill |-> now]), allowed,
                 TokenMetadata(rl, tokens),
                 [absent |-> absent, pre |-> tokens1, post |-> tokens])

----
(* _leaky_bucket *)

LeakyKey(identifier) == <<"rate_limit:leaky", identifier>>

LeakyMetadata(rl, volume) ==
    [limit |-> rl.requests,
     bucket_size |-> BurstOf(rl),
     volume |-> volume \div Scale(rl),
     strategy |-> "leaky_bucket"]

\* mutant of Leak: nothing leaks
LeakNothing(rl, volume, time_passed) == volume

\* the leak: max(0, volume - time_passed * leak_rate), scaled
Leak(rl, volume, time_passed) == Max(0, volume - time_passed * rl.requests)

\* mutant of BucketAccepts: "if volume <= bucket_size"
BucketAcceptsFull(rl, volume) == volume <= BurstOf(rl) * Scale(rl)

\* "if volume < bucket_size"
BucketAccepts(rl, volume) == volume < BurstOf(rl) * Scale(rl)

VolumeAfter(rl, volume) ==
    IF BucketAccepts(rl, volume) THEN volume + Scale(rl) ELSE volume

LeakyBucketRedis(r, m, identifier, rl, now, fault) ==
    LET key == LeakyKey(identifier)
        live == Purge(r, now)
        absent == key \notin DOMAIN live
        volume0 == IF absent THEN 0 ELSE live[key].val.volume
        last_leak == IF absent THEN now ELSE live[key].val.last_leak
        volume1 == Leak(rl, volume0, now - last_leak)
        allowed == BucketAccepts(rl, volume1)
        volume == VolumeAfter(rl, volume1)
        written == SetVal(live, key, [volume |-> volume, last_leak |-> now])
        done == Expire(written, key, rl.window * 2, now)
    IN  CASE fault.call = "none" ->
               Returned(done, m, allowed, LeakyMetadata(rl, volume),
                        [absent |-> absent, pre |-> volume1, post |-> volume])
          [] fault.call = "hmget" -> FailOpen(live, m)
          [] fault.call = "hmset" -> FailOpen(IF fault.applied THEN written ELSE live, m)
          [] fault.call = "expire" -> FailOpen(IF fault.applied THEN done ELSE written, m)

\* The memory branch updates bucket["volume"] and never binds the local name
\* volume, which the metadata then reads ("volume": int(volume)): the read
\* raises UnboundLocalError after the store has been updated.
LeakyBucketMemory(r, m, identifier, rl, now) ==
    LET key == LeakyKey(identifier)
        absent == key \notin DOMAIN m
        bucket == IF absent THEN [volume |-> 0, last_leak |-> now] ELSE m[key]
        volume1 == Leak(rl, bucket.volume, now - bucket.last_leak)
        after == VolumeAfter(rl, volume1)
    IN  Raised(r, Put(m, key, [volume |-> after, last_leak |-> now]),
               [absent |-> absent, pre |-> volume1, post |-> after])

----
(* Requests and the middleware's configuration *)

\* an Optional[str]: None, or a string
None == [some |-> FALSE, val |-> <<>>]
Some(v) == [some |-> TRUE, val |-> v]
\* Python's truth test "if x:" of an Optional[str]: None and "" are false
Truthy(o) == o.some /\ o.val # <<>>

\* "pattern in path": pattern is a substring of path
Contains(path, pattern) ==
    \E i \in 0..(Len(path) - Len(pattern)) :
        SubSeq(path, i + 1, i + Len(pattern)) = pattern

\* the pieces paths are written with, and all paths of 1..MaxPathLen pieces
PathPieces == {"/", "auth", "upload", "documents", "health", "metrics", "s"}
Paths == UNION {[1..n -> PathPieces] : n \in 1..MaxPathLen}

Health == <<"/", "health">>
Metrics == <<"/", "metrics">>

\* the pieces of an X-Forwarded-For value: two addresses, the comma, the
\* blank; and all values of 0..MaxHeaderLen pieces
HeaderPieces == {"a", "b", ",", " "}
HeaderValues == UNION {[1..n -> HeaderPieces] : n \in 0..MaxHeaderLen}

\* request.state.user_id: not set, or the id of a user (User.id is a UUID,
\* whose string is never empty)
UserIds == {None, Some(<<"u1">>), Some(<<"u2">>)}

\* request.client.host
Hosts == {<<"p">>, <<"q">>}

\* what dispatch reads of a Request
NoRequest == [path |-> <<>>, user_id |-> None, forwarded_for |-> None, host |-> <<>>]

\* RateLimit(requests, window): strategy and burst take their defaults
RateLimitOf(requests, window) ==
    [requests |-> requests, window |-> window, strategy |-> "fixed_window", burst |-> 0]

\* RateLimitMiddleware.default_limits
default_limits ==
    [default |-> RateLimitOf(DefaultRequests, DefaultWindow),
     auth |-> RateLimitOf(AuthRequests, DefaultWindow),
     upload |-> RateLimitOf(UploadRequests, DefaultWindow)]

\* what dispatch has done with a request: the client key, how the check
\* ended ("bypass": no check), the decision, the calls made in their order
\* ("check", "call_next"), and the response returned (status 0: none, an
\* exception left dispatch)
NoResponse ==
    [client_id |-> <<>>, out |-> "none", allowed |-> FALSE, md |-> EmptyDict,
     events |-> <<>>, status |-> 0, body |-> EmptyDict, headers |-> EmptyDict]

----
(* Bookkeeping about the checks of Subject.  It is read by the             *)
(* properties only; no operation of the limiter reads it.                  *)
(*   admits   ticks of the admitted decisions of the trailing window       *)
(*   win,idx  the aligned window of the latest check and the number of     *)
(*            checks made in it; clean: none of them met a store fault     *)
(*   zeroAt   the tick of the admit that left the token bucket at exactly  *)
(*            0 tokens, while no later check has been admitted; else -1    *)
(*   zeroSeen the value of zeroAt that the latest check found              *)
(*   t0,n     the tick of a check that found the bucket absent (or full),  *)
(*            and the number of checks made at that very tick              *)
(*   m        the number of checks made exactly window/requests seconds    *)
(*            after t0, with no check between the two instants             *)
(*   lastAt   the tick of the latest check                                 *)
(*   checks   sliding window: the ticks of the checks of the trailing      *)
(*            window, whatever their outcome, the latest included; clean:  *)
(*            no check so far met a store fault                            *)
(*   denied   the latest check was decided and denied                      *)
(*   recovery the latest check was made more than W seconds after the      *)
(*            check before it, which was denied                            *)

NoHist ==
    [admits |-> <<>>, win |-> -1, idx |-> 0, clean |-> TRUE, zeroAt |-> -1,
     zeroSeen |-> -1, t0 |-> -1, n |-> 0, m |-> 0, lastAt |-> -1, checks |-> <<>>,
     denied |-> FALSE, recovery |-> FALSE]

IsWindowStrategy(rl) == rl.strategy \in {"fixed_window", "sliding_window"}
IsBucketStrategy(rl) == rl.strategy \in {"token_bucket", "leaky_bucket"}

AdmitsAfter(h, rl, now, res) ==
    LET kept == SelectSeq(h.admits, LAMBDA t : t > now - Ticks(rl.window))
    IN  IF ~IsWindowStrategy(rl) THEN <<>>
        ELSE IF res.out = "ok" /\ res.allowed THEN Append(kept, now)
        ELSE kept

WindowAfter(h, rl, now, res) ==
    LET ws == WindowStart(IntSeconds(now), rl)
    IN  IF rl.strategy = "sliding_window"
        THEN [win |-> -1, idx |-> 0, clean |-> h.clean /\ res.out = "ok"]
        ELSE IF rl.strategy # "fixed_window" THEN [win |-> -1, idx |-> 0, clean |-> TRUE]
        ELSE IF ws = h.win
        THEN [win |-> ws, idx |-> h.idx + 1, clean |-> h.clean /\ res.out = "ok"]
        ELSE [win |-> ws, idx |-> 1, clean |-> res.out = "ok"]

ChecksAfter(h, rl, now) ==
    IF rl.strategy # "sliding_window" THEN <<>>
    ELSE Append(SelectSeq(h.checks, LAMBDA t : t > now - Ticks(rl.window)), now)

ZeroAtAfter(h, rl, now, res) ==
    IF rl.strategy # "token_bucket" \/ res.out # "ok" THEN -1
    ELSE IF ~res.allowed THEN h.zeroAt
    ELSE IF res.aux.post = 0 THEN now
    ELSE -1

Fresh(rl, res) ==
    /\ res.out # "failopen"
    /\ \/ res.aux.absent
       \/ rl.strategy = "token_bucket" /\ res.aux.pre = BurstOf(rl) * Scale(rl)

BurstAfter(h, rl, now, res) ==
    IF ~IsBucketStrategy(rl) \/ res.out = "failopen"
    THEN [t0 |-> -1, n |-> 0, m |-> 0]
    ELSE IF Fresh(rl, res) THEN [t0 |-> now, n |-> 1, m |-> 0]
    ELSE IF h.t0 # -1 /\ now = h.t0 /\ h.m = 0
    THEN [t0 |-> h.t0, n |-> h.n + 1, m |-> 0]
    ELSE IF /\ h.t0 # -1
            /\ (now - h.t0) * rl.requests = Scale(rl)
            /\ h.lastAt \in {h.t0, now}
    THEN [t0 |-> h.t0, n |-> h.n, m |-> h.m + 1]
    ELSE [t0 |-> -1, n |-> 0, m |-> 0]

HistAfter(h, rl, now, res) ==
    LET w == WindowAfter(h, rl, now, res)
        b == BurstAfter(h, rl, now, res)
    IN  [admits |-> AdmitsAfter(h, rl, now, res),
         win |-> w.win, idx |-> w.idx, clean |-> w.clean,
         zeroAt |-> ZeroAtAfter(h, rl, now, res), zeroSeen |-> h.zeroAt,
         t0 |-> b.t0, n |-> b.n, m |-> b.m, lastAt |-> now,
         checks |-> ChecksAfter(h, rl, now),
         denied |-> res.out = "ok" /\ ~res.allowed,
         recovery |-> h.denied /\ now - h.lastAt > Ticks(rl.window)]

NoDecision ==
    [id |-> "", now |-> -1, fault |-> "none", out |-> "none", allowed |-> FALSE,
     md |-> EmptyDict]

----
(* The operations *)

InitWith(ids, maxTime, maxChecks) ==
    /\ started = FALSE
    /\ redis_client = FALSE
    /\ rate_limit \in RateLimit
    /\ clock = 0
    /\ redis = EmptyDict
    /\ memory_store = EmptyDict
    /\ last = NoDecision
    /\ clients = ids
    /\ limits = [time |-> maxTime, checks |-> maxChecks]
    /\ hist = NoHist
    /\ solo = [redis |-> EmptyDict, memory |-> EmptyDict, last |-> NoDecision]
    /\ nChecks = 0
    /\ procs = <<>>
    /\ rate_limits = <<>>
    /\ request = NoRequest
    /\ response = NoResponse

\* one client
Init == InitWith({Subject}, MaxTime, MaxChecks)

\* mutant of Connect: the probe is run again at any time
ConnectAnytime ==
    /\ started' = TRUE
    /\ \E ping \in BOOLEAN : redis_client' = ping
    /\ UNCHANGED <<rate_limit, clock, redis, memory_store, last, clients, limits, hist,
                   solo, nChecks, procs, rate_limits, request, response>>

\* RateLimiter.connect, awaited once by the application's startup: ping
\* answers (the client is kept) or raises (redis_client = None)
Connect ==
    /\ ~started
    /\ started' = TRUE
    /\ \E ping \in BOOLEAN : redis_client' = ping
    /\ UNCHANGED <<rate_limit, clock, redis, memory_store, last, clients, limits, hist,
                   solo, nChecks, procs, rate_limits, request, response>>

\* time passes
Tick ==
    /\ clock < limits.time
    /\ clock' = clock + 1
    /\ UNCHANGED <<started, redis_client, rate_limit, redis, memory_store, last,
                   clients, limits, hist, solo, nChecks, procs, rate_limits, request,
                   response>>

\* the caller's view of a check: the store fault it met, how it ended (a
\* decision, the fail-open decision, an exception) and the (allowed, metadata)
\* pair returned
Decision(identifier, now, fault, res) ==
    [id |-> identifier, now |-> now, fault |-> fault.call, out |-> res.out,
     allowed |-> res.allowed, md |-> res.md]

\* what a check leaves behind: the stores, the decision, the bookkeeping.
\* res is the check run on the stores, alone the same check run on solo.
Finish(identifier, now, fault, res, alone) ==
    /\ redis' = res.redis
    /\ memory_store' = res.memory
    /\ IF identifier = Subject
       THEN /\ last' = Decision(identifier, now, fault, res)
            /\ hist' = HistAfter(hist, rate_limit, now, res)
            /\ solo' = [redis |-> alone.redis, memory |-> alone.memory,
                        last |-> Decision(identifier, now, fault, alone)]
       ELSE UNCHANGED <<last, hist, solo>>
    /\ nChecks' = nChecks + 1
    /\ UNCHANGED <<started, redis_client, rate_limit, clients, limits, procs,
                   rate_limits, request, response>>

CanCheck(identifier, strategy) ==
    /\ started
    /\ identifier \in clients
    /\ nChecks < limits.checks
    /\ rate_limit.strategy = strategy

\* check_rate_limit -> _fixed_window
FixedWindow(identifier) ==
    /\ CanCheck(identifier, "fixed_window")
    /\ IF redis_client
       THEN \E fault \in PipelineFaults :
               /\ Finish(identifier, clock, fault,
                         FixedWindowRedis(redis, memory_store, identifier, rate_limit,
                                          clock, fault),
                         FixedWindowRedis(solo.redis, solo.memory, identifier,
                                          rate_limit, clock, fault))
               /\ UNCHANGED clock
       ELSE \E skew \in 0..MaxSkew :
               /\ clock + skew <= limits.time
               /\ Finish(identifier, clock, NoFault,
                         FixedWindowMemory(redis, memory_store, identifier, rate_limit,
                                           clock, clock + skew),
                         FixedWindowMemory(solo.redis, solo.memory, identifier,
                                           rate_limit, clock, clock + skew))
               /\ clock' = clock + skew

\* check_rate_limit -> _sliding_window
SlidingWindow(identifier) ==
    /\ CanCheck(identifier, "sliding_window")
    /\ IF redis_client
       THEN \E fault \in PipelineFaults :
               Finish(identifier, clock, fault,
                      SlidingWindowRedis(redis, memory_store, identifier, rate_limit,
                                         clock, fault),
                      SlidingWindowRedis(solo.redis, solo.memory, identifier,
                                         rate_limit, clock, fault))
       ELSE Finish(identifier, clock, NoFault,
                   SlidingWindowMemory(redis, memory_store, identifier, rate_limit, clock),
                   SlidingWindowMemory(solo.redis, solo.memory, identifier, rate_limit,
                                       clock))
    /\ UNCHANGED clock

\* check_rate_limit -> _token_bucket
TokenBucket(identifier) ==
    /\ CanCheck(identifier, "token_bucket")
    /\ IF redis_client
       THEN \E fault \in HashFaults :
               Finish(identifier, clock, fault,
                      TokenBucketRedis(redis, memory_store, identifier, rate_limit,
                                       clock, fault),
                      TokenBucketRedis(solo.redis, solo.memory, identifier, rate_limit,
                                       clock, fault))
       ELSE Finish(identifier, clock, NoFault,
                   TokenBucketMemory(redis, memory_store, identifier, rate_limit, clock),
                   TokenBucketMemory(solo.redis, solo.memory, identifier, rate_limit,
                                     clock))
    /\ UNCHANGED clock

\* check_rate_limit -> _leaky_bucket
LeakyBucket(identifier) ==
    /\ CanCheck(identifier, "leaky_bucket")
    /\ IF redis_client
       THEN \E fault \in HashFaults :
               Finish(identifier, clock, fault,
                      LeakyBucketRedis(redis, memory_store, identifier, rate_limit,
                                       clock, fault),
                      LeakyBucketRedis(solo.redis, solo.memory, identifier, rate_limit,
                                       clock, fault))
       ELSE Finish(identifier, clock, NoFault,
                   LeakyBucketMemory(redis, memory_store, identifier, rate_limit, clock),
                   LeakyBucketMemory(solo.redis, solo.memory, identifier, rate_limit,
                                     clock))
    /\ UNCHANGED clock

\* RateLimiter.check_rate_limit: the dispatch on rate_limit.strategy
CheckRateLimit(identifier) ==
    \/ FixedWindow(identifier)
    \/ SlidingWindow(identifier)
    \/ TokenBucket(identifier)
    \/ LeakyBucket(identifier)

Next ==
    \/ Connect
    \/ Tick
    \/ \E identifier \in Identifiers : CheckRateLimit(identifier)

Spec == Init /\ [][Next]_vars

\* two clients under the same policy
InitKeys == InitWith(Identifiers, KeysMaxTime, KeysMaxChecks)
SpecKeys == InitKeys /\ [][Next]_vars

----
(* Concurrent checks of one client key on the networked backend, with no   *)
(* time passing.  A check suspends at every await, so each store call of   *)
(* _token_bucket and _leaky_bucket (hmget, hmset, expire) is a step of its *)
(* own, and the steps of different requests interleave.                    *)

Requests == 1..ConcProcs

InitConc ==
    /\ started = TRUE
    /\ redis_client = TRUE
    /\ rate_limit \in {rl \in RateLimit : IsBucketStrategy(rl)}
    /\ clock = 0
    /\ redis = EmptyDict
    /\ memory_store = EmptyDict
    /\ last = NoDecision
    /\ clients = {Subject}
    /\ limits = [time |-> 0, checks |-> ConcProcs]
    /\ hist = NoHist
    /\ solo = [redis |-> EmptyDict, memory |-> EmptyDict, last |-> NoDecision]
    /\ nChecks = 0
    /\ procs = [p \in Requests |-> [pc |-> "hmget", read |-> 0, allowed |-> FALSE]]
    /\ rate_limits = <<>>
    /\ request = NoRequest
    /\ response = NoResponse

BucketKey(rl, identifier) ==
    IF rl.strategy = "token_bucket" THEN TokenKey(identifier) ELSE LeakyKey(identifier)

ConcUnchanged ==
    UNCHANGED <<started, redis_client, rate_limit, clock, memory_store, last, clients,
                limits, hist, solo, nChecks, rate_limits, request, response>>

\* await hmget(...), then the arithmetic up to the next await
HmGet(p) ==
    /\ procs[p].pc = "hmget"
    /\ LET key == BucketKey(rate_limit, Subject)
           live == Purge(redis, clock)
           absent == key \notin DOMAIN live
           tokens1 == Refill(rate_limit,
                             IF absent THEN BurstOf(rate_limit) * Scale(rate_limit)
                             ELSE live[key].val.tokens,
                             clock - (IF absent THEN clock ELSE live[key].val.last_refill))
           volume1 == Leak(rate_limit,
                           IF absent THEN 0 ELSE live[key].val.volume,
                           clock - (IF absent THEN clock ELSE live[key].val.last_leak))
       IN  procs' = [procs EXCEPT ![p] =
                IF rate_limit.strategy = "token_bucket"
                THEN [pc |-> "hmset", read |-> TokensAfter(rate_limit, tokens1),
                      allowed |-> TokenAvailable(rate_limit, tokens1)]
                ELSE [pc |-> "hmset", read |-> VolumeAfter(rate_limit, volume1),
                      allowed |-> BucketAccepts(rate_limit, volume1)]]
    /\ UNCHANGED redis
    /\ ConcUnchanged

\* await hmset(...)
HmSet(p) ==
    /\ procs[p].pc = "hmset"
    /\ redis' = SetVal(Purge(redis, clock), BucketKey(rate_limit, Subject),
                       IF rate_limit.strategy = "token_bucket"
                       THEN [tokens |-> procs[p].read, last_refill |-> clock]
                       ELSE [volume |-> procs[p].read, last_leak |-> clock])
    /\ procs' = [procs EXCEPT ![p].pc = "expire"]
    /\ ConcUnchanged

\* await expire(...), then the return
ExpireKey(p) ==
    /\ procs[p].pc = "expire"
    /\ redis' = Expire(Purge(redis, clock), BucketKey(rate_limit, Subject),
                       rate_limit.window * 2, clock)
    /\ procs' = [procs EXCEPT ![p].pc = "done"]
    /\ ConcUnchanged

NextConc == \E p \in Requests : HmGet(p) \/ HmSet(p) \/ ExpireKey(p)

SpecConc == InitConc /\ [][NextConc]_vars

----
(* Concurrent fixed-window checks of one client key on the networked       *)
(* backend, inside one aligned window.  A check reads the clock and builds *)
(* its key, queues INCR and EXPIRE on a pipeline and awaits execute(): the *)
(* server runs the queued commands as one MULTI/EXEC transaction, at some  *)
(* later moment, and the transactions of different checks are serialized   *)
(* by the server in any order.                                             *)

InitFixedConc ==
    /\ started = TRUE
    /\ redis_client = TRUE
    /\ rate_limit \in {rl \in RateLimit : rl.strategy = "fixed_window"}
    /\ clock = 0
    /\ redis = EmptyDict
    /\ memory_store = EmptyDict
    /\ last = NoDecision
    /\ clients = {Subject}
    \* the clock stays inside the aligned window that starts at 0
    /\ limits = [time |-> Ticks(rate_limit.window) - 1, checks |-> ConcProcs]
    /\ hist = NoHist
    /\ solo = [redis |-> EmptyDict, memory |-> EmptyDict, last |-> NoDecision]
    /\ nChecks = 0
    /\ \E n \in 1..ConcProcs :
          procs = [p \in 1..n |-> [pc |-> "enter", now |-> 0, read |-> 0,
                                   allowed |-> FALSE, out |-> "none"]]
    /\ rate_limits = <<>>
    /\ request = NoRequest
    /\ response = NoResponse

\* "now = int(time.time())" up to the queued pipeline
Enter(p) ==
    /\ procs[p].pc = "enter"
    /\ procs' = [procs EXCEPT ![p].pc = "execute", ![p].now = IntSeconds(clock)]
    /\ UNCHANGED redis
    /\ ConcUnchanged

\* mutant of PipelineExecute: the server runs INCR and EXPIRE of a check on
\* the store as the check found it on entry to an empty window (a read and
\* a write that are not one transaction)
PipelineExecuteStale(r, key, seconds, t) == Expire(Incr(Del(r, key), key), key, seconds, t)

\* the transaction of pipe.execute(): INCR key, EXPIRE key seconds, at tick t
PipelineExecute(r, key, seconds, t) == Expire(Incr(r, key), key, seconds, t)

\* "results = await pipe.execute()", then the decision
Execute(p) ==
    /\ procs[p].pc = "execute"
    /\ \E fault \in PipelineFaults :
          LET key == FixedKey(Subject, WindowStart(procs[p].now, rate_limit))
              live == Purge(redis, clock)
              done == PipelineExecute(live, key, rate_limit.window, clock)
              current_count == done[key].val
          IN  /\ redis' = IF fault.call = "none" \/ fault.applied THEN done ELSE live
              /\ procs' = [procs EXCEPT ![p] =
                    IF fault.call = "none"
                    THEN [pc |-> "done", now |-> procs[p].now, read |-> current_count,
                          allowed |-> current_count <= rate_limit.requests,
                          out |-> "ok"]
                    ELSE [pc |-> "done", now |-> procs[p].now, read |-> 0,
                          allowed |-> TRUE, out |-> "failopen"]]
    /\ ConcUnchanged

NextFixedConc == Tick \/ \E p \in DOMAIN procs : Enter(p) \/ Execute(p)

SpecFixedConc == InitFixedConc /\ [][NextFixedConc]_vars

----
(* RateLimitMiddleware *)

\* get_client_identifier
RECURSIVE FirstField(_)
\* forwarded_for.split(',')[0]
FirstField(v) ==
    IF v = <<>> \/ Head(v) = "," THEN <<>> ELSE <<Head(v)>> \o FirstField(Tail(v))

RECURSIVE LStrip(_)
LStrip(v) == IF v # <<>> /\ Head(v) = " " THEN LStrip(Tail(v)) ELSE v

RECURSIVE RStrip(_)
RStrip(v) ==
    IF v # <<>> /\ v[Len(v)] = " " THEN RStrip(SubSeq(v, 1, Len(v) - 1)) ELSE v

\* mutant of Strip: the address is not trimmed
StripNothing(v) == v

\* str.strip()
Strip(v) == RStrip(LStrip(v))

GetClientIdentifier(req) ==
    IF Truthy(req.user_id) THEN <<"user:">> \o req.user_id.val
    ELSE IF Truthy(req.forwarded_for)
    THEN <<"ip:">> \o Strip(FirstField(req.forwarded_for.val))
    ELSE <<"ip:">> \o req.host

RECURSIVE LastMatch(_, _, _)
\* mutant of FirstMatch: the loop runs to its end and the last match stays
LastMatch(items, path, i) ==
    IF i > Len(items) THEN 0
    ELSE LET later == LastMatch(items, path, i + 1)
         IN  IF later # 0 THEN later
             ELSE IF Contains(path, items[i].pattern) THEN i ELSE 0

RECURSIVE FirstMatch(_, _, _)
\* "for pattern, limit in self.rate_limits.items(): if pattern in path:
\* return limit", from item i on: the index of the item returned, 0 if the
\* loop ends
FirstMatch(items, path, i) ==
    IF i > Len(items) THEN 0
    ELSE IF Contains(path, items[i].pattern) THEN i
    ELSE FirstMatch(items, path, i + 1)

\* get_rate_limit_for_endpoint
GetRateLimitForEndpoint(items, path) ==
    LET i == FirstMatch(items, path, 1)
    IN  IF i # 0 THEN items[i].limit
        ELSE IF Contains(path, <<"/", "auth", "/">>) THEN default_limits.auth
        ELSE IF Contains(path, <<"/", "upload">>) \/ Contains(path, <<"/", "documents">>)
        THEN default_limits.upload
        ELSE default_limits.default

\* mutant of IsBypassed: a substring test
IsBypassedContaining(path) == Contains(path, Health) \/ Contains(path, Metrics)

\* request.url.path in ["/health", "/metrics"]
IsBypassed(path) == path \in {Health, Metrics}

\* check_rate_limit: the dispatch on the strategy, then the branch on
\* redis_client.  t, t2: the clock reads (t2 only in the memory branch of the
\* fixed window).  With window = 0 the first statements of _fixed_window
\* ("now % rate_limit.window"), _token_bucket and _leaky_bucket
\* ("rate_limit.requests / rate_limit.window") raise ZeroDivisionError,
\* outside any try.
CheckResult(r, m, networked, identifier, rl, t, t2, fault) ==
    IF rl.window = 0 /\ rl.strategy # "sliding_window" THEN Raised(r, m, EmptyDict)
    ELSE
    CASE rl.strategy = "fixed_window" ->
           IF networked THEN FixedWindowRedis(r, m, identifier, rl, t, fault)
           ELSE FixedWindowMemory(r, m, identifier, rl, t, t2)
      [] rl.strategy = "sliding_window" ->
           IF networked THEN SlidingWindowRedis(r, m, identifier, rl, t, fault)
           ELSE SlidingWindowMemory(r, m, identifier, rl, t)
      [] rl.strategy = "token_bucket" ->
           IF networked THEN TokenBucketRedis(r, m, identifier, rl, t, fault)
           ELSE TokenBucketMemory(r, m, identifier, rl, t)
      [] rl.strategy = "leaky_bucket" ->
           IF networked THEN LeakyBucketRedis(r, m, identifier, rl, t, fault)
           ELSE LeakyBucketMemory(r, m, identifier, rl, t)

\* the store faults a check of the policy can meet, and the ticks that can
\* pass between its clock reads
FaultsFor(rl, networked) ==
    IF ~networked THEN {NoFault}
    ELSE IF IsWindowStrategy(rl) THEN PipelineFaults ELSE HashFaults

SkewsFor(rl, networked) ==
    IF ~networked /\ rl.strategy = "fixed_window" THEN 0..MaxSkew ELSE {0}

\* int(x) of a number of ticks, in seconds: truncation towards zero
IntTrunc(x) == IF x >= 0 THEN x \div Res ELSE -((-x) \div Res)

\* "return await call_next(request)" of a bypassed path
Forwarded ==
    [client_id |-> <<>>, out |-> "bypass", allowed |-> TRUE, md |-> EmptyDict,
     events |-> <<"call_next">>, status |-> 200, body |-> EmptyDict,
     headers |-> EmptyDict]

\* metadata.get(key, default)
MetadataGet(md, key, default) == IF key \in DOMAIN md THEN md[key] ELSE default

\* dispatch after the check.  t: the clock when the response is built
\* (metadata.get('reset', time.time() + window)); a reset is kept in ticks.
\* The downstream handler's own response is taken to be a 200 without
\* headers.
Respond(client_id, rl, res, t) ==
    LET md == res.md
        limit == MetadataGet(md, "limit", rl.requests)
        remaining == MetadataGet(md, "remaining", 0)
        reset == IF "reset" \in DOMAIN md THEN Ticks(md["reset"]) ELSE t + Ticks(rl.window)
        three == [h \in {"X-RateLimit-Limit", "X-RateLimit-Remaining", "X-RateLimit-Reset"}
                    |-> CASE h = "X-RateLimit-Limit" -> limit
                          [] h = "X-RateLimit-Remaining" -> remaining
                          [] h = "X-RateLimit-Reset" -> reset]
    IN  CASE res.out = "raised" ->
               \* the exception of check_rate_limit leaves dispatch
               [client_id |-> client_id, out |-> res.out, allowed |-> FALSE, md |-> md,
                events |-> <<"check">>, status |-> 0, body |-> EmptyDict,
                headers |-> EmptyDict]
          [] res.out # "raised" /\ ~res.allowed ->
               [client_id |-> client_id, out |-> res.out, allowed |-> FALSE, md |-> md,
                events |-> <<"check">>, status |-> HTTP_429_TOO_MANY_REQUESTS,
                body |-> [error |-> "Rate limit exceeded",
                          message |-> <<"Too many requests. Limit: ",
                                        IF "limit" \in DOMAIN md THEN <<md["limit"]>>
                                        ELSE <<"unknown">>,
                                        " per ", rl.window, "s">>,
                          retry_after |-> reset - t],
                headers |-> Put(three, "Retry-After", IntTrunc(reset - t))]
          [] res.out # "raised" /\ res.allowed ->
               [client_id |-> client_id, out |-> res.out, allowed |-> TRUE, md |-> md,
                events |-> <<"check", "call_next">>, status |-> 200, body |-> EmptyDict,
                headers |-> three]

\* RateLimitMiddleware.dispatch of one request.  solo follows the checks
\* made under default_limits["auth"] as if they were the only checks.
Dispatch(req) ==
    /\ started
    /\ request' = req
    /\ IF IsBypassed(req.path)
       THEN /\ response' = Forwarded
            /\ UNCHANGED <<rate_limit, clock, redis, memory_store, solo, nChecks>>
       ELSE /\ nChecks < limits.checks
            /\ LET client_id == GetClientIdentifier(req)
                   rl == GetRateLimitForEndpoint(rate_limits, req.path)
               IN  \E fault \in FaultsFor(rl, redis_client),
                      skew \in SkewsFor(rl, redis_client) :
                      LET res == CheckResult(redis, memory_store, redis_client,
                                             client_id, rl, clock, clock + skew, fault)
                          alone == CheckResult(solo.redis, solo.memory, redis_client,
                                               client_id, rl, clock, clock + skew, fault)
                      IN  /\ clock + skew <= limits.time
                          /\ rate_limit' = rl
                          /\ clock' = clock + skew
                          /\ redis' = res.redis
                          /\ memory_store' = res.memory
                          /\ response' = Respond(client_id, rl, res, clock + skew)
                          /\ solo' = IF rl = default_limits.auth
                                     THEN [redis |-> alone.redis, memory |-> alone.memory,
                                           last |-> Respond(client_id, rl, alone,
                                                            clock + skew)]
                                     ELSE solo
                          /\ nChecks' = nChecks + 1
    /\ UNCHANGED <<started, redis_client, last, clients, limits, hist, procs, rate_limits>>

\* the requests sent through the middleware: a signed-in user on five paths,
\* an anonymous client on one
MwPaths ==
    {Health, Metrics, <<"/", "health", "/">>, <<"/", "auth", "/", "s">>, <<"/", "s">>}
MwRequests ==
    [path : MwPaths, user_id : {Some(<<"u1">>)}, forwarded_for : {None},
     host : {<<"p">>}]
      \cup [path : {<<"/", "auth", "/", "s">>}, user_id : {None},
            forwarded_for : {None}, host : {<<"p">>}]

\* the override maps tried: none (as main.py adds the middleware), or one
\* override of the paths containing "/s" by a policy of 1 request per second
\* of any strategy, without burst
MwOverrides ==
    {<<>>} \cup {<<[pattern |-> <<"/", "s">>, limit |-> rl]>> :
                    rl \in {x \in RateLimit : x.requests = 1 /\ x.window = 1
                                                  /\ x.burst = 0}}

InitMiddleware ==
    /\ started = FALSE
    /\ redis_client = FALSE
    /\ rate_limit = default_limits.default
    /\ clock = 0
    /\ redis = EmptyDict
    /\ memory_store = EmptyDict
    /\ last = NoDecision
    /\ clients = {}
    /\ limits = [time |-> MwMaxTime, checks |-> MwMaxChecks]
    /\ hist = NoHist
    /\ solo = [redis |-> EmptyDict, memory |-> EmptyDict, last |-> NoResponse]
    /\ nChecks = 0
    /\ procs = <<>>
    /\ rate_limits \in MwOverrides
    /\ request = NoRequest
    /\ response = NoResponse

NextMiddleware == Connect \/ Tick \/ \E req \in MwRequests : Dispatch(req)

SpecMiddleware == InitMiddleware /\ [][NextMiddleware]_vars

\* RateLimit is a dataclass without __post_init__: RateLimit(requests,
\* window, strategy) keeps any integers it is given, and
\* RateLimitMiddleware.__init__ keeps any map of them.  The policies with
\* requests = 0 or window = 0, and the middleware constructed with one of
\* them as the override of the paths containing "/s"
MalformedLimits ==
    {rl \in [requests : 0..MaxRequests, window : 0..MaxWindow, strategy : Strategies,
             burst : {0}] : rl.requests = 0 \/ rl.window = 0}
MalformedOverrides == {<<[pattern |-> <<"/", "s">>, limit |-> rl]>> : rl \in MalformedLimits}

InitConfig ==
    /\ started = FALSE
    /\ redis_client = FALSE
    /\ rate_limit = default_limits.default
    /\ clock = 0
    /\ redis = EmptyDict
    /\ memory_store = EmptyDict
    /\ last = NoDecision
    /\ clients = {}
    /\ limits = [time |-> MwMaxTime, checks |-> MwMaxChecks]
    /\ hist = NoHist
    /\ solo = [redis |-> EmptyDict, memory |-> EmptyDict, last |-> NoResponse]
    /\ nChecks = 0
    /\ procs = <<>>
    /\ rate_limits \in MalformedOverrides
    /\ request = NoRequest
    /\ response = NoResponse

SpecConfig == InitConfig /\ [][NextMiddleware]_vars

----
(* get_rate_limit_for_endpoint and get_client_identifier on their inputs   *)

\* the override maps: up to MaxOverrides items, in dict order, no pattern
\* twice; the limits are fixed-window policies of 1..MaxRequests per second
OverridePatterns == {<<"auth">>, <<"/", "auth">>, <<"s">>}
OverrideLimits == {RateLimitOf(requests, 1) : requests \in 1..MaxRequests}
OverrideMaps ==
    {items \in UNION {[1..n -> [pattern : OverridePatterns, limit : OverrideLimits]] :
                         n \in 0..MaxOverrides} :
        \A i, j \in DOMAIN items : i # j => items[i].pattern # items[j].pattern}

\* the model's variables around a request that has come in and has not been
\* handled
InitRequest(requests, overrides) ==
    /\ started = TRUE
    /\ redis_client = FALSE
    /\ rate_limit = default_limits.default
    /\ clock = 0
    /\ redis = EmptyDict
    /\ memory_store = EmptyDict
    /\ last = NoDecision
    /\ clients = {}
    /\ limits = [time |-> 0, checks |-> 0]
    /\ hist = NoHist
    /\ solo = [redis |-> EmptyDict, memory |-> EmptyDict, last |-> NoDecision]
    /\ nChecks = 0
    /\ procs = <<>>
    /\ rate_limits \in overrides
    /\ request \in requests
    /\ response = NoResponse

InitSelect ==
    InitRequest([path : Paths, user_id : {None}, forwarded_for : {None},
                 host : {<<"p">>}],
                OverrideMaps)

\* "rate_limit = self.get_rate_limit_for_endpoint(request)"
SelectPolicy ==
    /\ response.out = "none"
    /\ rate_limit' = GetRateLimitForEndpoint(rate_limits, request.path)
    /\ response' = [response EXCEPT !.out = "selected"]
    /\ UNCHANGED <<started, redis_client, clock, redis, memory_store, last, clients,
                   limits, hist, solo, nChecks, procs, rate_limits, request>>

SpecSelect == InitSelect /\ [][SelectPolicy]_vars

InitIdentify ==
    InitRequest([path : {<<"/", "s">>}, user_id : UserIds,
                 forwarded_for : {None} \cup {Some(v) : v \in HeaderValues},
                 host : Hosts],
                {<<>>})

\* "client_id = self.get_client_identifier(request)"
Identify ==
    /\ response.out = "none"
    /\ response' = [response EXCEPT !.out = "identified",
                                    !.client_id = GetClientIdentifier(request)]
    /\ UNCHANGED <<started, redis_client, rate_limit, clock, redis, memory_store, last,
                   clients, limits, hist, solo, nChecks, procs, rate_limits, request>>

SpecIdentify == InitIdentify /\ [][Identify]_vars

----
(* Properties.  R and B are the policy's requests and bucket capacity; W   *)
(* in the comments is its window.                                          *)

R == rate_limit.requests
B == BurstOf(rate_limit)
Strategy == rate_limit.strategy
Decided == last.out = "ok"

\* C1: sliding window: the admitted checks of one client key whose
\* timestamps lie in a rolling interval (t - W, t] number at most R.  (Any
\* interval holding more than R admits would be seen at its latest admit:
\* hist.admits holds the admits of the window that trails the latest check.)
SlidingWindowBound ==
    Strategy = "sliding_window" => Len(hist.admits) <= R

\* C2: fixed window: in an aligned window no check of which met a store
\* fault, the i-th check of a client key is admitted iff i <= R.
FixedWindowIthCheck ==
    (Strategy = "fixed_window" /\ Decided /\ hist.clean)
        => (last.allowed <=> hist.idx <= R)

\* C3: fixed window: the first check of a client key in an aligned window
\* finds the counter at 0 (it is admitted, R - 1 remain) whatever the
\* previous window counted, and each of the first R checks of a window is
\* admitted whatever was admitted before the boundary.
FixedWindowBoundaryBurst ==
    (Strategy = "fixed_window" /\ Decided /\ hist.clean)
        => /\ hist.idx <= R => last.allowed
           /\ hist.idx = 1 => last.md.remaining = R - 1

\* C3 witness: 2R admits lie less than W seconds apart, R of them after
\* the boundary
BoundaryBurstReached ==
    /\ Strategy = "fixed_window" /\ Decided /\ hist.clean
    /\ R >= 2 /\ hist.idx = R /\ Len(hist.admits) = 2 * R

\* C4: token bucket without a burst override: of the checks made at the
\* instant the bucket was full or absent, the i-th is admitted iff i <= R;
\* and after the admit that left exactly 0 tokens, a check is admitted iff
\* at least W/R seconds have passed since that admit (so the check made
\* right after such an admit, at the same instant, is denied).
TokenBucketBurstThenWait ==
    (Strategy = "token_bucket" /\ rate_limit.burst = 0 /\ Decided)
        => /\ hist.t0 = last.now => (last.allowed <=> hist.n <= R)
           /\ hist.zeroSeen # -1
                => (last.allowed <=> (last.now - hist.zeroSeen) * R >= Scale(rate_limit))

\* C4 witness: R admits at one instant emptied the bucket, a check made
\* before W/R seconds was denied, and the check made exactly W/R seconds
\* after is admitted and empties the bucket again
TokenWaitReached ==
    /\ Strategy = "token_bucket" /\ rate_limit.burst = 0 /\ Decided /\ R >= 2
    /\ hist.zeroSeen # -1 /\ last.allowed
    /\ (last.now - hist.zeroSeen) * R = Scale(rate_limit)
    /\ hist.zeroAt = last.now
    /\ nChecks >= R + 2

\* C5: leaky bucket: of the checks made at the instant the bucket was
\* absent, the i-th returns admit iff i <= B; after B + 1 or more of them,
\* the first check made W/R seconds later returns admit and the second one
\* made at that instant returns deny.  With either backend.
LeakyBucketCapacity ==
    (Strategy = "leaky_bucket" /\ last.out # "none" /\ hist.t0 # -1)
        => /\ Decided
           /\ hist.m = 0 => (last.allowed <=> hist.n <= B)
           /\ (hist.n >= B + 1 /\ hist.m = 1) => last.allowed
           /\ (hist.n >= B + 1 /\ hist.m >= 2) => ~last.allowed

\* C6: a check on the networked backend that meets a communication error
\* in any of its store calls returns (True, {}) and raises nothing.
FailsOpen ==
    (redis_client /\ last.fault # "none")
        => /\ last.out = "failopen"
           /\ last.allowed
           /\ DOMAIN last.md = {}

\* C6 witness: the last store call of a bucket check (expire) failed
FailOpenReached ==
    /\ redis_client /\ last.fault = "expire" /\ Strategy = "token_bucket"
    /\ last.out = "failopen"

\* C7: no check raises to its caller.
NeverRaises == last.out # "raised"

\* C8: the decisions returned to Subject (allowed and metadata, remaining
\* included), and the counter state of Subject, are those that Subject's
\* checks alone produce, whatever checks the other client has interleaved.
IsPart(d, e) == \A k \in DOMAIN d : k \in DOMAIN e /\ e[k] = d[k]

KeysIndependent ==
    /\ last = solo.last
    /\ IsPart(Purge(solo.redis, clock), Purge(redis, clock))
    /\ IsPart(solo.memory, memory_store)

\* C8 witness: the other client has counter state and Subject is denied
OtherKeyReached ==
    /\ last.id = Subject /\ Decided /\ ~last.allowed
    /\ \E k \in (DOMAIN redis) \cup (DOMAIN memory_store) : k[2] # Subject

\* C9: every decision of a check that reached the store carries
\* 0 <= remaining <= limit and reset >= the time of the decision.
MetadataBounds ==
    Decided
        => /\ {"remaining", "reset", "limit"} \subseteq DOMAIN last.md
           /\ 0 <= last.md.remaining /\ last.md.remaining <= last.md.limit
           /\ Ticks(last.md.reset) >= last.now

\* C10: concurrent token-bucket or leaky-bucket checks of one client key,
\* no time passing, from a full (token) or empty (leaky) bucket of capacity
\* B: once all have returned, at most B were admitted, and the tokens taken
\* (the volume added) equal the number of admits.
Admitted == Cardinality({p \in DOMAIN procs : procs[p].allowed})

AtomicBucketUpdate ==
    (procs # <<>> /\ \A p \in DOMAIN procs : procs[p].pc = "done")
        => /\ Admitted <= B
           /\ LET val == redis[BucketKey(rate_limit, Subject)].val
              IN  IF Strategy = "token_bucket"
                  THEN B * Scale(rate_limit) - val.tokens = Admitted * Scale(rate_limit)
                  ELSE val.volume = Admitted * Scale(rate_limit)

\* C11: fixed window on the networked backend: when N checks of one client
\* key have run concurrently inside one aligned window, none of them meeting
\* a store fault, whatever the interleaving: the stored counter is N, the
\* checks have observed the distinct post-increment values 1..N, and
\* min(N, R) of them are admitted.
AllDone == procs # <<>> /\ \A p \in DOMAIN procs : procs[p].pc = "done"

FixedWindowConcurrent ==
    (Strategy = "fixed_window" /\ AllDone /\ \A p \in DOMAIN procs : procs[p].out = "ok")
        => LET N == Len(procs)
           IN  /\ redis[FixedKey(Subject, 0)].val = N
               /\ {procs[p].read : p \in DOMAIN procs} = 1..N
               /\ Admitted = Min(N, R)

\* C11 witness: more checks than R have run; the check that entered first,
\* a second earlier than the last one, was served last and is denied
FixedConcurrentReached ==
    /\ Strategy = "fixed_window" /\ AllDone /\ \A p \in DOMAIN procs : procs[p].out = "ok"
    /\ Len(procs) = ConcProcs /\ R < Len(procs)
    /\ procs[1].now < procs[Len(procs)].now
    /\ procs[1].read = Len(procs) /\ ~procs[1].allowed

\* C12: a request that is not bypassed ends in one of two ways.  Denied:
\* the check was the only call (the downstream handler is not invoked) and
\* the response is a 429 with the body fields error, message, retry_after
\* and the headers X-RateLimit-Limit, -Remaining, -Reset and Retry-After.
\* Admitted: the check, then one call of the downstream handler, whose
\* response carries the three X-RateLimit-* headers.
RateLimitHeaders == {"X-RateLimit-Limit", "X-RateLimit-Remaining", "X-RateLimit-Reset"}

DispatchOutcome ==
    response.out \notin {"none", "bypass"}
        => \/ /\ ~response.allowed
              /\ response.events = <<"check">>
              /\ response.status = HTTP_429_TOO_MANY_REQUESTS
              /\ DOMAIN response.body = {"error", "message", "retry_after"}
              /\ DOMAIN response.headers = RateLimitHeaders \cup {"Retry-After"}
           \/ /\ response.allowed
              /\ response.events = <<"check", "call_next">>
              /\ response.status # 0
              /\ DOMAIN response.headers = RateLimitHeaders

\* C13: a request whose path is exactly "/health" or "/metrics", and no
\* other request (not one whose path merely contains these, such as
\* "/health/"), is bypassed: it is forwarded to the downstream handler, the
\* limiter is not consulted, and the step leaves the networked store and the
\* memory store as they were.
BypassFrame ==
    /\ [](response.out # "none"
            => (response.out = "bypass" <=> request.path \in {Health, Metrics}))
    /\ [](response.out = "bypass"
            => response.events = <<"call_next">> /\ response.headers = EmptyDict)
    /\ [][response'.out = "bypass"
            => (redis' = redis /\ memory_store' = memory_store /\ nChecks' = nChecks)]_vars

\* C13 witness: "/health" is forwarded while the stores hold counters and
\* the checks are used up
BypassReached ==
    /\ response.out = "bypass" /\ request.path = Health
    /\ nChecks = limits.checks
    /\ (DOMAIN redis) \cup (DOMAIN memory_store) # {}

\* C14: the backend is chosen once, by the probe of connect().  After
\* startup redis_client never changes.  If the probe failed, no step touches
\* the networked store or meets a store fault, and every check leaves its
\* state in the memory store.  If it succeeded, no step touches the memory
\* store, and every check goes to the networked store, whatever store errors
\* came before: it ends in the fail-open decision exactly when it meets a
\* fault, and otherwise leaves its state in the networked store.
BackendFixedAtStartup ==
    /\ [][started => redis_client' = redis_client]_vars
    /\ [][(started /\ ~redis_client)
            => /\ redis' = redis
               /\ last'.fault = "none" /\ last'.out # "failopen"
               /\ nChecks' # nChecks => DOMAIN memory_store' # {}]_vars
    /\ [][(started /\ redis_client)
            => /\ memory_store' = memory_store
               /\ nChecks' # nChecks
                    => /\ last'.out = "failopen" <=> last'.fault # "none"
                       /\ last'.out = "ok" => DOMAIN redis' # {}]_vars

\* C14 witness: on the networked backend a check of the current window met
\* a store error, and the check after it was served by the networked store;
\* the memory store is empty
BackendKeptReached ==
    /\ redis_client /\ Strategy = "fixed_window" /\ nChecks >= 3
    /\ ~hist.clean /\ last.out = "ok" /\ last.fault = "none"
    /\ memory_store = EmptyDict /\ DOMAIN redis # {}

\* C15: counter state is kept per policy: what a check under the 'auth'
\* policy returns (allowed and the metadata, remaining included) is what the
\* checks made under that policy alone produce, whatever checks the same
\* client has made under other policies of the same strategy.
PolicyIndependent ==
    (response.out \notin {"none", "bypass"} /\ rate_limit = default_limits.auth)
        => /\ response.allowed = solo.last.allowed
           /\ response.md = solo.last.md

\* C16: the policy selected for a path is the limit of the first override,
\* in the order of the override map, whose pattern is a substring of the
\* path; without such an override it is 'auth' (5 per 60 s) if the path
\* contains "/auth/", else 'upload' (10 per 60 s) if it contains "/upload"
\* or "/documents", else 'default' (100 per 60 s).  It is that one policy,
\* whatever later overrides or categories match too.
Matching == {i \in DOMAIN rate_limits : Contains(request.path, rate_limits[i].pattern)}

RuleSelection ==
    response.out = "selected"
        => rate_limit =
             IF Matching # {}
             THEN rate_limits[CHOOSE i \in Matching : \A j \in Matching : i <= j].limit
             ELSE IF Contains(request.path, <<"/", "auth", "/">>)
             THEN [requests |-> 5, window |-> 60, strategy |-> "fixed_window", burst |-> 0]
             ELSE IF \/ Contains(request.path, <<"/", "upload">>)
                     \/ Contains(request.path, <<"/", "documents">>)
             THEN [requests |-> 10, window |-> 60, strategy |-> "fixed_window", burst |-> 0]
             ELSE [requests |-> 100, window |-> 60, strategy |-> "fixed_window", burst |-> 0]

\* C16 witness: two overrides with different limits match a path that also
\* contains "/auth/"; the first one's limit is selected
FirstOverrideReached ==
    /\ response.out = "selected"
    /\ Contains(request.path, <<"/", "auth", "/">>)
    /\ {1, 2} \subseteq Matching
    /\ rate_limits[1].limit # rate_limits[2].limit
    /\ rate_limit = rate_limits[1].limit

\* a is the left-most address of the header value v, trimmed: the text of v
\* before its first comma, without the blanks at its two ends
Blank(v) == \A i \in DOMAIN v : v[i] = " "

IsLeftMostTrimmed(a, v) ==
    \E n \in 0..Len(v) :
        /\ n = Len(v) \/ v[n + 1] = ","
        /\ \A i \in 1..n : v[i] # ","
        /\ \E i \in 0..n, j \in 0..n :
              /\ i <= j
              /\ Blank(SubSeq(v, 1, i)) /\ Blank(SubSeq(v, j + 1, n))
              /\ a = SubSeq(v, i + 1, j)
              /\ a # <<>> => (a[1] # " " /\ a[Len(a)] # " ")

\* the key of the request is 'user:{id}' if it carries a user id; else, if
\* headerUsed, 'ip:' and the left-most trimmed address of its forwarded-for
\* header; else 'ip:' and its peer address
IdentifiedAs(headerUsed) ==
    IF request.user_id.some
    THEN response.client_id = <<"user:">> \o request.user_id.val
    ELSE IF headerUsed
    THEN /\ Head(response.client_id) = "ip:"
         /\ IsLeftMostTrimmed(Tail(response.client_id), request.forwarded_for.val)
    ELSE response.client_id = <<"ip:">> \o request.host

\* C17, as amended: the key is 'user:{id}' whenever the request carries a
\* user id, whatever its forwarded-for header and peer address are (so two
\* requests with the same user id get the same key); otherwise it is
\* 'ip:{a}' with a the left-most trimmed address of the forwarded-for header
\* when that header is present and not empty, else (no header, or an empty
\* one) the peer address.
ClientIdentification ==
    response.out = "identified"
        => IdentifiedAs(request.forwarded_for.some /\ request.forwarded_for.val # <<>>)

\* C17, as claimed: ... the left-most trimmed address of the forwarded-for
\* header when that header is present, else the peer address.
ClientIdentificationAsClaimed ==
    response.out = "identified" => IdentifiedAs(request.forwarded_for.some)

\* C17 witness: an anonymous request with an empty forwarded-for header is
\* keyed by its peer address
EmptyHeaderReached ==
    /\ response.out = "identified"
    /\ ~request.user_id.some
    /\ request.forwarded_for = Some(<<>>)
    /\ response.client_id = <<"ip:">> \o request.host

\* C18: a policy with requests <= 0 or window <= 0 is rejected when it is
\* constructed or configured: every check made was made with a policy whose
\* requests and window are positive, and no check raises with window = 0.
\* (rate_limit is the policy of the latest check; before the first check
\* it is the 'default' policy.)
MalformedPolicyRejected ==
    /\ rate_limit.requests > 0 /\ rate_limit.window > 0
    /\ response.out = "raised" => rate_limit.window # 0

\* C19: token bucket: the remaining that a decision reports, which is what
\* the middleware writes into X-RateLimit-Remaining
\* (metadata.get('remaining', 0)), is the whole part of the token count the
\* check has stored: capacity - 1 after the first check on a full bucket,
\* one less with each admit at the same instant.
TokenBucketRemaining ==
    (Strategy = "token_bucket" /\ Decided)
        => LET key == TokenKey(Subject)
               stored == IF redis_client THEN redis[key].val.tokens
                         ELSE memory_store[key].tokens
           IN  MetadataGet(last.md, "remaining", 0) = stored \div Scale(rate_limit)

\* C20: leaky bucket: in every reachable state the stored volume of a key
\* is at least 0 and at most bucket_size (burst, or requests without a
\* burst), in the networked store and in the memory store.
LeakyVolumeBound ==
    Strategy = "leaky_bucket"
        => LET key == LeakyKey(Subject)
               bucket_size == B * Scale(rate_limit)
           IN  /\ key \in DOMAIN redis
                    => (0 <= redis[key].val.volume /\ redis[key].val.volume <= bucket_size)
               /\ key \in DOMAIN memory_store
                    => /\ 0 <= memory_store[key].volume
                       /\ memory_store[key].volume <= bucket_size

\* the token bucket of Subject in the store that the limiter uses: the hash
\* of the networked store (gone once its time to live has passed at tick t)
\* or the entry of the memory store; Len = 0 when there is none
TokenBucketAt(t) ==
    LET key == TokenKey(Subject)
        live == Purge(redis, t)
    IN  IF redis_client
        THEN IF key \in DOMAIN live THEN <<live[key].val>> ELSE <<>>
        ELSE IF key \in DOMAIN memory_store THEN <<memory_store[key]>> ELSE <<>>

\* the token count that a check made now counts with: a full bucket when it
\* finds none, else the stored tokens plus (now - last_refill) * R / W,
\* capped at the capacity
Credit ==
    LET found == TokenBucketAt(clock)
        capacity == B * Scale(rate_limit)
    IN  IF found = <<>> THEN capacity
        ELSE Min(capacity, found[1].tokens + (clock - found[1].last_refill) * R)

\* a step that is a check of Subject ending with a decision
DecidedCheck == nChecks' = nChecks + 1 /\ last'.out = "ok"

\* C21: token bucket: in every reachable state the stored tokens of a key
\* are at least 0 and at most the capacity (burst, or requests without a
\* burst), and a check is admitted only when the token count it counts with,
\* after the refill, is at least 1.
TokenRange ==
    Strategy = "token_bucket"
        => LET key == TokenKey(Subject)
               capacity == B * Scale(rate_limit)
           IN  /\ key \in DOMAIN redis
                    => (0 <= redis[key].val.tokens /\ redis[key].val.tokens <= capacity)
               /\ key \in DOMAIN memory_store
                    => /\ 0 <= memory_store[key].tokens
                       /\ memory_store[key].tokens <= capacity

TokenBucketRange ==
    /\ []TokenRange
    /\ [][(Strategy = "token_bucket" /\ DecidedCheck /\ last'.allowed)
            => Credit >= Scale(rate_limit)]_vars

\* C21 witness: a bucket of the memory store that was drawn from is refilled
\* up to its capacity and no further, and the check that found it full is
\* admitted
TokenRefilledReached ==
    /\ Strategy = "token_bucket" /\ Decided /\ last.allowed /\ ~redis_client
    /\ hist.t0 = last.now /\ last.now > 0 /\ hist.n = 1
    /\ nChecks >= 2
    /\ TokenBucketAt(clock) # <<>>
    /\ TokenBucketAt(clock)[1].tokens = (B - 1) * Scale(rate_limit)

\* the token count that a bucket [tokens, last_refill] is worth at tick t
\* when only refilled since: min(capacity, tokens + (t - last_refill) * R / W)
WorthAt(bucket, t) ==
    Min(B * Scale(rate_limit), bucket.tokens + (t - bucket.last_refill) * R)

\* C22: token bucket: a denied check takes no token, and what it writes
\* back is {tokens = min(capacity, old tokens + elapsed * rate), last_refill
\* = now}: at every later instant the bucket is worth what it would have
\* been worth without the denied check, so denied checks neither lose nor
\* double-count refill credit, and a check is admitted exactly when the
\* accumulated credit has reached 1.
TokenDenialFrame ==
    [][(Strategy = "token_bucket" /\ DecidedCheck)
         => /\ last'.allowed <=> Credit >= Scale(rate_limit)
            /\ ~last'.allowed
                 => LET old == TokenBucketAt(clock)
                        new == TokenBucketAt(clock)'
                    IN  /\ old # <<>> /\ new # <<>>
                        /\ new[1] = [tokens |-> Credit, last_refill |-> clock]
                        /\ \A t \in clock..limits.time :
                              WorthAt(new[1], t) = WorthAt(old[1], t)]_vars

\* C22 witness: a denied check made after time has passed has written back
\* a part of a token, with its own time as last_refill
PartialCreditReached ==
    /\ Strategy = "token_bucket" /\ Decided /\ ~last.allowed /\ last.now > 0
    /\ TokenBucketAt(clock) # <<>>
    /\ TokenBucketAt(clock)[1].last_refill = last.now
    /\ TokenBucketAt(clock)[1].tokens > 0
    /\ TokenBucketAt(clock)[1].tokens < Scale(rate_limit)

\* C23: fixed window, memory store: a check reads the clock once, so the
\* window key, the expiry test and the reset time come from one 'now': no
\* check resets the counter of an existing window entry, each check leaves
\* every counter it found at least as high as it found it.
FixedWindowNeverReset ==
    [][(Strategy = "fixed_window" /\ ~redis_client /\ nChecks' = nChecks + 1)
         => \A key \in DOMAIN memory_store :
               /\ key \in DOMAIN memory_store'
               /\ memory_store'[key].count >= memory_store[key].count]_vars

\* the number of entries recorded for Subject's sliding-window key in the
\* store that the limiter uses
SlidingEntries ==
    LET key == SlidingKey(Subject)
    IN  IF redis_client
        THEN IF key \in DOMAIN redis THEN Cardinality(redis[key].val) ELSE 0
        ELSE IF key \in DOMAIN memory_store THEN Len(memory_store[key]) ELSE 0

\* C24: sliding window: the count is exact.  While no check met a store
\* fault, the count a check decides with is 1 + the number of earlier checks
\* of the key, admitted or denied, whose timestamps lie in the current
\* window, also when checks carry the same timestamp: every check of the
\* window has an entry of its own in the store, and the remaining reported
\* is R less that count.
SlidingCountExact ==
    (Strategy = "sliding_window" /\ Decided /\ hist.clean)
        => /\ SlidingEntries = Len(hist.checks)
           /\ last.md.remaining = Max(0, R - Len(hist.checks))

\* C25: sliding window: denied checks are recorded too.  While no check met
\* a store fault, a check is admitted iff fewer than R checks of any outcome
\* were made for its key in the window that trails it (the check included,
\* at most R), so a client that keeps R checks in every trailing window is
\* not admitted again.
SlidingRecordsDenied ==
    (Strategy = "sliding_window" /\ Decided /\ hist.clean)
        => (last.allowed <=> Len(hist.checks) <= R)

\* C26: recovery after a denial, for every strategy and every policy with
\* requests >= 1: when a check of a client key is denied and the key then
\* makes no check for more than W seconds, its next check is admitted (it
\* does not raise and it is allowed).
RecoveryAfterDenial ==
    hist.recovery => (last.out # "raised" /\ last.allowed)

\* C26 witness: a leaky bucket of the networked store denied a check, and
\* the next check, more than W seconds later, is decided and admitted
RecoveryReached ==
    /\ Strategy = "leaky_bucket" /\ redis_client
    /\ hist.recovery /\ Decided /\ last.allowed

\* C27: fixed window, memory store: stale entries are evicted lazily.  After
\* a check of a key in the aligned window k, the store holds no entry of
\* that key for a window that ended before k began.
StaleEntriesEvicted ==
    (Strategy = "fixed_window" /\ ~redis_client /\ Decided)
        => LET k == WindowStart(IntSeconds(last.now), rate_limit)
           IN  \A key \in DOMAIN memory_store :
                  key[2] = Subject => key[3] + rate_limit.window > k

----
(* Bucket keys that run out of their time to live: checks of one client    *)
(* key on the networked backend under bucket policies whose burst is above *)
(* twice their requests.  The store keeps an expired key until the next    *)
(* check purges it, so a state shows what the key held when it expired.    *)

ExpiryPolicies ==
    { rl \in [requests : 1..MaxRequests, window : 1..MaxWindow,
              strategy : {"token_bucket", "leaky_bucket"},
              burst : 1..(2 * MaxRequests + 1)] :
        rl.burst = 2 * rl.requests + 1 }

InitExpiry ==
    /\ started = TRUE
    /\ redis_client = TRUE
    /\ rate_limit \in ExpiryPolicies
    /\ clock = 0
    /\ redis = EmptyDict
    /\ memory_store = EmptyDict
    /\ last = NoDecision
    /\ clients = {Subject}
    /\ limits = [time |-> MaxTime, checks |-> MaxChecks]
    /\ hist = NoHist
    /\ solo = [redis |-> EmptyDict, memory |-> EmptyDict, last |-> NoDecision]
    /\ nChecks = 0
    /\ procs = <<>>
    /\ rate_limits = <<>>
    /\ request = NoRequest
    /\ response = NoResponse

NextExpiry == Tick \/ TokenBucket(Subject) \/ LeakyBucket(Subject)

SpecExpiry == InitExpiry /\ [][NextExpiry]_vars

\* the bucket key has run out of the time to live that its latest write
\* gave it: 2 * W seconds have passed without a check since that write
IdleExpired(key, field) ==
    /\ key \in DOMAIN redis
    /\ redis[key].exp = redis[key].val[field] + Ticks(2 * rate_limit.window)
    /\ redis[key].exp <= clock

\* C28: networked backend: the expiry of a bucket key never makes the
\* bucket more permissive than continuous refill or leak.  When a key has
\* expired after 2 * W seconds without a check, the state a check starts
\* from (tokens = capacity, volume = 0) is the state that refilling or
\* leaking what the key held over the same time gives, for every policy,
\* those with burst > 2 * requests included.
ExpiryAsContinuous ==
    /\ (Strategy = "token_bucket" /\ IdleExpired(TokenKey(Subject), "last_refill"))
         => WorthAt(redis[TokenKey(Subject)].val, clock) = B * Scale(rate_limit)
    /\ (Strategy = "leaky_bucket" /\ IdleExpired(LeakyKey(Subject), "last_leak"))
         => LET held == redis[LeakyKey(Subject)].val
            IN  Leak(rate_limit, held.volume, clock - held.last_leak) = 0

----
(* The token bucket and the leaky bucket side by side: at each check time  *)
(* the key is checked under the policy as a token bucket and under the     *)
(* same requests, window and burst as a leaky bucket, on the networked     *)
(* backend, both checks meeting the same store fault.  The two strategies  *)
(* use different keys, so one store holds both buckets.  last is the token *)
(* bucket's decision and solo.last the leaky bucket's; hist.clean holds    *)
(* while elapsed * rate has been a whole number at every check.            *)

AsLeaky(rl) == [rl EXCEPT !.strategy = "leaky_bucket"]

InitDual ==
    /\ started = TRUE
    /\ redis_client = TRUE
    /\ rate_limit \in {rl \in RateLimit : rl.strategy = "token_bucket"}
    /\ clock = 0
    /\ redis = EmptyDict
    /\ memory_store = EmptyDict
    /\ last = NoDecision
    /\ clients = {Subject}
    /\ limits = [time |-> MaxTime, checks |-> MaxChecks]
    /\ hist = NoHist
    /\ solo = [redis |-> EmptyDict, memory |-> EmptyDict, last |-> NoDecision]
    /\ nChecks = 0
    /\ procs = <<>>
    /\ rate_limits = <<>>
    /\ request = NoRequest
    /\ response = NoResponse

\* time_passed * refill_rate of a check made now is a whole number
WholeRefill ==
    LET live == Purge(redis, clock)
        key == TokenKey(Subject)
        time_passed == IF key \in DOMAIN live THEN clock - live[key].val.last_refill
                       ELSE 0
    IN  (time_passed * rate_limit.requests) % Scale(rate_limit) = 0

\* _token_bucket and _leaky_bucket, called at the same instant
DualCheck ==
    /\ started
    /\ nChecks < limits.checks
    /\ \E fault \in HashFaults :
          LET token == TokenBucketRedis(redis, memory_store, Subject, rate_limit,
                                        clock, fault)
              leaky == LeakyBucketRedis(token.redis, token.memory, Subject,
                                        AsLeaky(rate_limit), clock, fault)
          IN  /\ redis' = leaky.redis
              /\ memory_store' = leaky.memory
              /\ last' = Decision(Subject, clock, fault, token)
              /\ solo' = [solo EXCEPT !.last = Decision(Subject, clock, fault, leaky)]
    /\ hist' = [hist EXCEPT !.clean = hist.clean /\ WholeRefill]
    /\ nChecks' = nChecks + 1
    /\ UNCHANGED <<started, redis_client, rate_limit, clock, clients, limits, procs,
                   rate_limits, request, response>>

NextDual == Tick \/ DualCheck

SpecDual == InitDual /\ [][NextDual]_vars

\* C29: the token bucket and the leaky bucket are dual.  For equal requests,
\* window and burst, started from an absent state and checked at the same
\* times on the networked backend, while elapsed * rate has been a whole
\* number at every check the two return the same allow/deny decision and
\* their stored states stay related by tokens = capacity - volume.
BucketsDual ==
    hist.clean
        => LET token == TokenKey(Subject)
               leaky == LeakyKey(Subject)
           IN  /\ last.out = solo.last.out
               /\ last.allowed = solo.last.allowed
               /\ token \in DOMAIN redis <=> leaky \in DOMAIN redis
               /\ token \in DOMAIN redis
                    => /\ redis[token].exp = redis[leaky].exp
                       /\ redis[token].val.last_refill = redis[leaky].val.last_leak
                       /\ redis[token].val.tokens
                             = B * Scale(rate_limit) - redis[leaky].val.volume

\* C29 witness: after time has passed, both buckets deny the same check
DualDenialReached ==
    /\ hist.clean /\ last.now > 0
    /\ last.out = "ok" /\ ~last.allowed
    /\ solo.last.out = "ok" /\ ~solo.last.allowed
    /\ redis[TokenKey(Subject)].val.tokens = 0
    /\ redis[LeakyKey(Subject)].val.volume = B * Scale(rate_limit)

----
(* Concurrent fixed-window checks of one client key on the memory store,   *)
(* in one process, made inside one aligned window.  The memory branch has  *)
(* no await: a check runs from its clock read to its decision without a    *)
(* suspension point, so it is one step, and the checks of different        *)
(* requests run one after the other in any order.  The clock is read twice *)
(* within the step, and it may have advanced between the two reads.        *)

InitMemoryConc ==
    /\ started = TRUE
    /\ redis_client = FALSE
    /\ rate_limit \in {rl \in RateLimit : rl.strategy = "fixed_window"}
    /\ clock = 0
    /\ redis = EmptyDict
    /\ memory_store = EmptyDict
    /\ last = NoDecision
    /\ clients = {Subject}
    \* checks begin inside the aligned window that starts at 0
    /\ limits = [time |-> Ticks(rate_limit.window) - 1 + MaxSkew, checks |-> ConcProcs]
    /\ hist = NoHist
    /\ solo = [redis |-> EmptyDict, memory |-> EmptyDict, last |-> NoDecision]
    /\ nChecks = 0
    /\ \E n \in 1..ConcProcs :
          procs = [p \in 1..n |-> [pc |-> "enter", now |-> 0, read |-> 0,
                                   allowed |-> FALSE, out |-> "none"]]
    /\ rate_limits = <<>>
    /\ request = NoRequest
    /\ response = NoResponse

\* _fixed_window, memory branch, of request p
MemoryCheck(p) ==
    /\ procs[p].pc = "enter"
    /\ clock < Ticks(rate_limit.window)
    /\ \E skew \in 0..MaxSkew :
          LET res == FixedWindowMemory(redis, memory_store, Subject, rate_limit,
                                       clock, clock + skew)
          IN  /\ clock + skew <= limits.time
              /\ memory_store' = res.memory
              /\ clock' = clock + skew
              /\ procs' = [procs EXCEPT ![p] =
                    [pc |-> "done", now |-> IntSeconds(clock), read |-> res.aux.count,
                     allowed |-> res.allowed, out |-> res.out]]
    /\ UNCHANGED <<started, redis_client, rate_limit, redis, last, clients, limits,
                   hist, solo, nChecks, rate_limits, request, response>>

NextMemoryConc == Tick \/ \E p \in DOMAIN procs : MemoryCheck(p)

SpecMemoryConc == InitMemoryConc /\ [][NextMemoryConc]_vars

\* C30: memory store, concurrent requests in one process: no update of a
\* check is lost, whatever the interleaving.  Under fixed window, once N
\* concurrent checks of one client key made inside one aligned window have
\* all returned, the stored count is N, the number of checks made in the
\* window, and at most R of them were admitted.
MemoryConcurrent ==
    (Strategy = "fixed_window" /\ ~redis_client /\ AllDone)
        => /\ memory_store[FixedKey(Subject, 0)].count = Len(procs)
           /\ Admitted <= R

====
